---------------------------- MODULE Spec2Model ----------------------------
(***************************************************************************)
(* BrineX Decision Support System (src/app.py).                            *)
(*                                                                         *)
(* The dashboard is a Streamlit script: every change of a sidebar widget   *)
(* re-runs the whole script, which reads the six inputs, calls             *)
(* calculate_metrics, get_recommendation and get_viability_verdict and     *)
(* renders the verdict, the KPI row and the explanation box.               *)
(*                                                                         *)
(* Number representation.  TLC has 32-bit integers and no reals, so the    *)
(* quantities Python holds in floats are kept as exact decimal fixed-point *)
(* pairs:                                                                  *)
(*   a mass   is [k |-> whole kg,      g |-> grams        (0..999)]        *)
(*   an amount is [d |-> whole dollars, u |-> micro-dollars (0..999999)]   *)
(* Every product of the integer inputs with 2.50, 0.12, 0.08 and 0.60 is   *)
(* an exact multiple of one micro-dollar, so no rounding happens in the    *)
(* model; the floats of the program differ from these values by at most a  *)
(* few units in the last place.                                            *)
(***************************************************************************)
EXTENDS Integers, FiniteSets

VARIABLES in_tds, in_na, in_mg, in_ca, in_flow, in_loc,
          data, rec_strategy, verdict, kpi, explanation, progress

vars == <<in_tds, in_na, in_mg, in_ca, in_flow, in_loc,
          data, rec_strategy, verdict, kpi, explanation, progress>>

inputs == <<in_tds, in_na, in_mg, in_ca, in_flow, in_loc>>

(***************************************************************************)
(* Sidebar widgets: st.number_input(label, min, max, default, step).       *)
(***************************************************************************)
TDS_MAX == 150000
TDS_DEFAULT == 65000
NA_MAX == 60000
NA_DEFAULT == 22000
MG_MAX == 10000
MG_DEFAULT == 1800
CA_MAX == 10000
CA_DEFAULT == 900
FLOW_MAX == 600000
FLOW_DEFAULT == 120000
FLOW_STEP == 1000

Locations == {"Low", "Medium", "High"}

(***************************************************************************)
(* Bounds of the model: each widget is sampled on an even grid over its    *)
(* range, plus its default and the values next to the code's thresholds.   *)
(***************************************************************************)
TdsGrid == 16
MgGrid == 1
CaGrid == 3
FlowGrid == 1

Grid(max, n) == {(k * max) \div n : k \in 0..n}

TdsVals == Grid(TDS_MAX, TdsGrid) \cup {TDS_DEFAULT, 60000, 80000, 80001}
NaVals == {0, NA_DEFAULT, NA_MAX}
MgVals == Grid(MG_MAX, MgGrid) \cup {MG_DEFAULT, 50, 1500, 1900}
CaVals == Grid(CA_MAX, CaGrid) \cup {CA_DEFAULT, 500}
FlowVals == Grid(FLOW_MAX, FlowGrid) \cup {FLOW_DEFAULT, FLOW_STEP, 10000, 50000}

(***************************************************************************)
(* Fixed-point helpers.                                                    *)
(***************************************************************************)
Norm(d, u) == [d |-> d + (u \div 1000000), u |-> u % 1000000]

Add(a, b) == Norm(a.d + b.d, a.u + b.u)

\* a - b, for a >= b
Sub(a, b) ==
    IF a.u >= b.u THEN [d |-> a.d - b.d, u |-> a.u - b.u]
    ELSE [d |-> a.d - b.d - 1, u |-> a.u + 1000000 - b.u]

\* a * (h / 100); a.u is a multiple of 10 micro-dollars wherever this is used
Times(a, h) ==
    Norm((h * a.d) \div 100, ((h * a.d) % 100) * 10000 + (h * a.u) \div 100)

Less(a, b) == a.d < b.d \/ (a.d = b.d /\ a.u < b.u)

Dollars(n) == [d |-> n, u |-> 0]

(***************************************************************************)
(* calculate_metrics, section by section.                                  *)
(***************************************************************************)

\* (conc * flow) / 1000.0  kg/day
Recovery(conc, flow) ==
    LET fh == flow \div 1000
        fl == flow % 1000
        p  == conc * fl
    IN  [k |-> conc * fh + (p \div 1000), g |-> p % 1000]

\* rec_kg * price, the price given in cents per kg
Value(m, cents) ==
    Norm((cents * m.k) \div 100,
         ((cents * m.k) % 100) * 10000 + cents * 10 * m.g)

PRICE_MG == 250
PRICE_NA == 12
PRICE_CA == 8
OPEX_PCT == 60

\* 65% instead of 60%
est_opex_m1(total_revenue) == Times(total_revenue, 65)

\* total_revenue * 0.60
est_opex(total_revenue) == Times(total_revenue, OPEX_PCT)

loc_penalty(location) ==
    IF location = "High" THEN 15 ELSE (IF location = "Medium" THEN 8 ELSE 0)

\* Python's int(): truncation toward zero of n / q, q > 0
Trunc(n, q) == IF n >= 0 THEN n \div q ELSE -((-n) \div q)

Max(a, b) == IF a >= b THEN a ELSE b

\* the score without its floor at 0
env_score_m1(tds, pen) == Trunc((100 - pen) * 1200 - tds, 1200)

\* max(0, int(100 - tds / 1200 - loc_penalty))
env_score(tds, pen) == Max(0, Trunc((100 - pen) * 1200 - tds, 1200))

risk_lvl(score) ==
    IF score >= 75 THEN "Low Risk"
    ELSE IF score >= 45 THEN "Moderate Risk"
    ELSE "High Risk"

\* as calculate_metrics, but the magnesium value is left out of the revenue
\* when the high-salinity strategy applies
calculate_metrics_m1(tds, na, mg, ca, flow, location) ==
    LET mg_rec_kg == Recovery(mg, flow)
        na_rec_kg == Recovery(na, flow)
        ca_rec_kg == Recovery(ca, flow)
        val_mg == Value(mg_rec_kg, PRICE_MG)
        val_na == Value(na_rec_kg, PRICE_NA)
        val_ca == Value(ca_rec_kg, PRICE_CA)
        total_revenue == IF tds > 80000 THEN Add(val_na, val_ca)
                         ELSE Add(Add(val_mg, val_na), val_ca)
        opex == est_opex(total_revenue)
        pen == loc_penalty(location)
        score == env_score(tds, pen)
    IN  [mg_kg |-> mg_rec_kg, na_kg |-> na_rec_kg, ca_kg |-> ca_rec_kg,
         val_mg |-> val_mg, val_na |-> val_na, val_ca |-> val_ca,
         total_revenue |-> total_revenue,
         est_profit |-> Sub(total_revenue, opex),
         env_score |-> score, risk |-> risk_lvl(score),
         sal_red |-> tds * 35,  \* tds * 0.35, in hundredths of a mg/L
         loc_penalty |-> pen]

calculate_metrics(tds, na, mg, ca, flow, location) ==
    LET mg_rec_kg == Recovery(mg, flow)
        na_rec_kg == Recovery(na, flow)
        ca_rec_kg == Recovery(ca, flow)
        val_mg == Value(mg_rec_kg, PRICE_MG)
        val_na == Value(na_rec_kg, PRICE_NA)
        val_ca == Value(ca_rec_kg, PRICE_CA)
        total_revenue == Add(Add(val_mg, val_na), val_ca)
        opex == est_opex(total_revenue)
        pen == loc_penalty(location)
        score == env_score(tds, pen)
    IN  [mg_kg |-> mg_rec_kg, na_kg |-> na_rec_kg, ca_kg |-> ca_rec_kg,
         val_mg |-> val_mg, val_na |-> val_na, val_ca |-> val_ca,
         total_revenue |-> total_revenue,
         est_profit |-> Sub(total_revenue, opex),
         env_score |-> score, risk |-> risk_lvl(score),
         sal_red |-> tds * 35,  \* tds * 0.35, in hundredths of a mg/L
         loc_penalty |-> pen]

(***************************************************************************)
(* get_viability_verdict: the title of the returned tuple.                 *)
(***************************************************************************)
PROFIT_THRESHOLD == 500

\* the profit test placed before the score test
get_viability_verdict_m1(score, profit) ==
    IF score >= 75 /\ Less(Dollars(PROFIT_THRESHOLD), profit)
    THEN "HIGHLY VIABLE"
    ELSE IF Less(profit, Dollars(PROFIT_THRESHOLD))
    THEN "MARGINAL VIABILITY"
    ELSE IF score < 45
    THEN "NOT RECOMMENDED"
    ELSE "PROCEED WITH CAUTION"

get_viability_verdict(score, profit) ==
    IF score >= 75 /\ Less(Dollars(PROFIT_THRESHOLD), profit)
    THEN "HIGHLY VIABLE"
    ELSE IF score < 45
    THEN "NOT RECOMMENDED"
    ELSE IF Less(profit, Dollars(PROFIT_THRESHOLD))
    THEN "MARGINAL VIABILITY"
    ELSE "PROCEED WITH CAUTION"

(***************************************************************************)
(* get_recommendation                                                      *)
(***************************************************************************)
HighSalinity == "High Salinity: Evaporation & Salt Recovery System"
MagnesiumRecovery == "Magnesium Recovery via Chemical Precipitation"
ZLD == "Zero Liquid Discharge (ZLD)"
Dilution == "Controlled Dilution with Diffuser System"

\* the location test placed before the magnesium test
get_recommendation_m1(tds, mg, location) ==
    IF tds > 80000 THEN HighSalinity
    ELSE IF location = "High" THEN ZLD
    ELSE IF mg > 1500 THEN MagnesiumRecovery
    ELSE Dilution

get_recommendation(tds, mg, location) ==
    IF tds > 80000 THEN HighSalinity
    ELSE IF mg > 1500 THEN MagnesiumRecovery
    ELSE IF location = "High" THEN ZLD
    ELSE Dilution

(***************************************************************************)
(* Rendering.                                                              *)
(***************************************************************************)

\* f"{x:,.0f}": the nearest whole number, a tie going to the even one
Format0(a) ==
    IF a.u < 500000 THEN a.d
    ELSE IF a.u > 500000 THEN a.d + 1
    ELSE IF a.d % 2 = 0 THEN a.d ELSE a.d + 1

\* rec_strategy.split(":")[0]
StrategyLabel(s) == IF s = HighSalinity THEN "High Salinity" ELSE s

\* the KPI row: Revenue Potential, OpEx Estimate (60%), Net Profit, Strategy
KpiRow(d, strategy) ==
    [revenue  |-> Format0(d.total_revenue),
     opex     |-> Format0(Times(d.total_revenue, OPEX_PCT)),
     profit   |-> Format0(d.est_profit),
     strategy |-> StrategyLabel(strategy)]

\* the "How is this calculated?" box
ExplanationBox(tds, d) ==
    [baseline |-> 100,
     salinity_penalty |-> Trunc(tds, 1200),
     location_penalty |-> d.loc_penalty]

\* st.progress(env_score / 100), as a fraction
Progress(d) == [num |-> d.env_score, den |-> 100]

(***************************************************************************)
(* One run of the script on the current widget values.                     *)
(***************************************************************************)
Run(tds, na, mg, ca, flow, loc) ==
    /\ in_tds' = tds
    /\ in_na' = na
    /\ in_mg' = mg
    /\ in_ca' = ca
    /\ in_flow' = flow
    /\ in_loc' = loc
    /\ data' = calculate_metrics(tds, na, mg, ca, flow, loc)
    /\ rec_strategy' = get_recommendation(tds, mg, loc)
    /\ verdict' = get_viability_verdict(data'.env_score, data'.est_profit)
    /\ kpi' = KpiRow(data', rec_strategy')
    /\ explanation' = ExplanationBox(tds, data')
    /\ progress' = Progress(data')

Init ==
    /\ in_tds = TDS_DEFAULT
    /\ in_na = NA_DEFAULT
    /\ in_mg = MG_DEFAULT
    /\ in_ca = CA_DEFAULT
    /\ in_flow = FLOW_DEFAULT
    /\ in_loc = "Low"
    /\ data = calculate_metrics(TDS_DEFAULT, NA_DEFAULT, MG_DEFAULT,
                                CA_DEFAULT, FLOW_DEFAULT, "Low")
    /\ rec_strategy = get_recommendation(TDS_DEFAULT, MG_DEFAULT, "Low")
    /\ verdict = get_viability_verdict(data.env_score, data.est_profit)
    /\ kpi = KpiRow(data, rec_strategy)
    /\ explanation = ExplanationBox(TDS_DEFAULT, data)
    /\ progress = Progress(data)

SetTds ==
    \E v \in TdsVals \ {in_tds} : Run(v, in_na, in_mg, in_ca, in_flow, in_loc)

SetNa ==
    \E v \in NaVals \ {in_na} : Run(in_tds, v, in_mg, in_ca, in_flow, in_loc)

SetMg ==
    \E v \in MgVals \ {in_mg} : Run(in_tds, in_na, v, in_ca, in_flow, in_loc)

SetCa ==
    \E v \in CaVals \ {in_ca} : Run(in_tds, in_na, in_mg, v, in_flow, in_loc)

SetFlow ==
    \E v \in FlowVals \ {in_flow} : Run(in_tds, in_na, in_mg, in_ca, v, in_loc)

SetLoc ==
    \E v \in Locations \ {in_loc} : Run(in_tds, in_na, in_mg, in_ca, in_flow, v)

Next == SetTds \/ SetNa \/ SetMg \/ SetCa \/ SetFlow \/ SetLoc

Spec == Init /\ [][Next]_vars

TypeOK ==
    /\ in_tds \in 0..TDS_MAX
    /\ in_na \in 0..NA_MAX
    /\ in_mg \in 0..MG_MAX
    /\ in_ca \in 0..CA_MAX
    /\ in_flow \in 0..FLOW_MAX
    /\ in_loc \in Locations
    /\ data.total_revenue.u \in 0..999999
    /\ data.est_profit.u \in 0..999999

(***************************************************************************)
(* Properties.                                                             *)
(***************************************************************************)

Verdicts ==
    {"HIGHLY VIABLE", "NOT RECOMMENDED", "MARGINAL VIABILITY",
     "PROCEED WITH CAUTION"}

\* n times an amount
Mult(n, a) == Norm(n * a.d, n * a.u)

Abs(x) == IF x >= 0 THEN x ELSE -x

\* conc * flow / 1000 kg, computed by splitting the concentration
MassOf(conc, flow) ==
    LET ch == conc \div 1000
        cl == conc % 1000
    IN  [k |-> ch * flow + ((cl * flow) \div 1000), g |-> (cl * flow) % 1000]

\* (2.50*mg + 0.12*na + 0.08*ca) * flow / 1000 dollars, computed from the
\* inputs in one product: K = 250*mg + 12*na + 8*ca cents per m3, split in
\* thousands so that no partial product leaves 32 bits
RevenueOf(mg, na, ca, flow) ==
    LET K  == 250 * mg + 12 * na + 8 * ca
        kh == K \div 1000
        kl == K % 1000
        fh == flow \div 1000
        fl == flow % 1000
        M  == kh * fl + kl * fh
        low == (M % 100) * 1000 + kl * fl
    IN  Norm(kh * fh * 10 + (M \div 100) + (low \div 100000),
             (low % 100000) * 10)

\* C1 (as stated): est_profit is total_revenue minus 60% of it, and the
\* Revenue, OpEx and Net Profit figures of the KPI row always satisfy
\* Revenue - OpEx = Net Profit.
C1_ShownFiguresAddUp ==
    /\ Mult(5, data.est_profit) = Mult(2, data.total_revenue)
    /\ kpi.revenue - kpi.opex = kpi.profit

\* C1 (amended): est_profit is total_revenue minus 60% of it (that is, 40% of
\* it) before rounding; the three figures of the KPI row, each rounded to
\* whole dollars on its own, satisfy Revenue - OpEx = Net Profit up to one
\* dollar, and exactly when total_revenue is a whole number of dollars.
C1_ProfitIsRevenueMinusOpex ==
    /\ Mult(5, data.est_profit) = Mult(2, data.total_revenue)
    /\ Abs(kpi.revenue - kpi.opex - kpi.profit) <= 1
    /\ data.total_revenue.u = 0 => kpi.revenue - kpi.opex = kpi.profit

C1_Witness ==
    /\ data.total_revenue.d > 0
    /\ data.total_revenue.u # 0
    /\ kpi.revenue - kpi.opex # kpi.profit

\* C2 (as stated): magnesium is checked first: whenever mg > 1500 the
\* magnesium treatment is recommended, whatever tds and location are.
C2_MagnesiumFirst ==
    in_mg > 1500 => rec_strategy = MagnesiumRecovery

\* C2 (amended): salinity is checked first, magnesium second: whenever
\* mg > 1500 and tds <= 80000 the magnesium treatment is recommended for
\* every location, and whenever tds > 80000 the high-salinity treatment is
\* recommended whatever mg is.
C2_MagnesiumUnlessHighSalinity ==
    /\ (in_mg > 1500 /\ in_tds <= 80000) => rec_strategy = MagnesiumRecovery
    /\ in_tds > 80000 => rec_strategy = HighSalinity

\* the scenario Mg=1900, Ca=500, salinity=60000, flow=50000
C2_Witness ==
    /\ in_mg = 1900 /\ in_ca = 500 /\ in_tds = 60000 /\ in_flow = 50000
    /\ in_loc = "High"
    /\ rec_strategy = MagnesiumRecovery

\* C3: the verdict is NOT RECOMMENDED for every score below 45, whatever the
\* profit, and never for a score of 45 or more.
C3_NotRecommendedIffLowScore ==
    /\ verdict \in Verdicts
    /\ verdict = "NOT RECOMMENDED" <=> data.env_score < 45

\* a score below 45 with a profit of more than a million dollars a day
C3_Witness ==
    /\ data.env_score < 45
    /\ data.est_profit.d >= 1000000
    /\ verdict = "NOT RECOMMENDED"

\* C4: the verdict is PROCEED WITH CAUTION only for a score between 45 and
\* 75, and for a score of 75 or more with a profit at or above the 500
\* threshold the verdict is HIGHLY VIABLE.
C4_CautionOnlyMidScore ==
    /\ verdict = "PROCEED WITH CAUTION" => data.env_score \in 45..75
    /\ (data.env_score >= 75 /\ ~Less(data.est_profit, Dollars(PROFIT_THRESHOLD)))
          => verdict = "HIGHLY VIABLE"

\* C5: the score shown equals the breakdown of the explanation box:
\* env_score = max(0, baseline - salinity penalty - location penalty).
C5_ScoreEqualsBreakdown ==
    data.env_score =
        Max(0, explanation.baseline - explanation.salinity_penalty
                 - explanation.location_penalty)

\* C7 (state part): each recovered mass is concentration * flow / 1000, total_revenue is
\* 2.50*mg_kg + 0.12*na_kg + 0.08*ca_kg, and total_revenue does not depend on
\* tds, location or the recommended strategy: it is a function of mg, na,
\* ca and flow, and a step that changes none of them leaves it unchanged.
C7_RevenueFormula ==
    /\ data.mg_kg = MassOf(in_mg, in_flow)
    /\ data.na_kg = MassOf(in_na, in_flow)
    /\ data.ca_kg = MassOf(in_ca, in_flow)
    /\ data.total_revenue = RevenueOf(in_mg, in_na, in_ca, in_flow)

C7_RevenueIndependent ==
    (in_mg' = in_mg /\ in_na' = in_na /\ in_ca' = in_ca /\ in_flow' = in_flow)
        => data'.total_revenue = data.total_revenue

\* C7: the masses and total_revenue follow the formulas in every state, and
\* total_revenue changes only when mg, na, ca or flow changes.
C7_Revenue == []C7_RevenueFormula /\ [][C7_RevenueIndependent]_vars

\* high salinity, sensitive location, a non-default flow and a revenue with cents
C7_Witness ==
    /\ in_tds > 80000 /\ in_loc = "High" /\ rec_strategy = HighSalinity
    /\ in_mg > 0 /\ in_na > 0 /\ in_ca > 0 /\ in_flow = FLOW_STEP
    /\ data.total_revenue.u # 0

\* C8 (state part): env_score is an integer in 0..100, so the fraction given to the
\* progress bar lies in [0, 1]; and env_score never increases when tds
\* increases with the location fixed.
C8_ScoreRange ==
    /\ data.env_score \in 0..100
    /\ progress.num = data.env_score
    /\ progress.den = 100
    /\ 0 <= progress.num /\ progress.num <= progress.den

C8_ScoreMonotone ==
    (in_loc' = in_loc /\ in_tds' >= in_tds) => data'.env_score <= data.env_score

\* C8: env_score stays in 0..100 (the progress fraction in [0, 1]) in every
\* state, and never increases when tds increases with the location fixed.
C8_Score == []C8_ScoreRange /\ [][C8_ScoreMonotone]_vars

\* the clamp at 0 acts: 100 - 125 - 15 < 0
C8_Witness ==
    /\ in_tds = TDS_MAX /\ in_loc = "High"
    /\ data.env_score = 0 /\ progress.num = 0

=============================================================================
